---- MODULE Spec2Model ----
(***************************************************************************)
(* Labor-line service: AppSync dispatcher (handler), record model (models) *)
(* and DynamoDB persistence adapter (services), as a state machine.        *)
(*                                                                         *)
(* Strings that take part in key derivation are sequences of characters,   *)
(* so taskId + "#" + laborLineId is sequence concatenation and begins_with *)
(* is the prefix relation.  The table (PK hash key, SK range key) is a     *)
(* function from <<PK, SK>> to the stored attribute map; every client call *)
(* (PutItem, GetItem, Query) is one atomic step and the invocations of     *)
(* the Lambda interleave between their client calls.                       *)
(***************************************************************************)
EXTENDS Integers, Sequences, FiniteSets, TLC

VARIABLES store, now, inv, nops, journal

vars == <<store, now, inv, nops, journal>>

(* ------------------------------ bounds --------------------------------- *)
MaxOps == 3
MaxSeqOps == 4
MaxClock == 2

Procs == {"p1", "p2"}
Main == "p1"

(* --------------------------- value universe ---------------------------- *)
None == <<>>
Some(x) == <<x>>

A1 == <<"a", "1">>
A2 == <<"a", "2">>
T1 == <<"t", "1">>
T2 == <<"t", "2">>
L1 == <<"l", "1">>
L2 == <<"l", "2">>
C1 == <<"c", "1">>
P1 == <<"p", "1">>
P2 == <<"p", "2">>
Empty == <<>>

\* a note is abstracted to its identity and its length in characters
N1 == [tag |-> "n1", len |-> 2]
N2 == [tag |-> "n2", len |-> 2]
N0 == [tag |-> "n0", len |-> 0]
NMin == [tag |-> "min", len |-> 1]
NMax == [tag |-> "max", len |-> 1000]
NOver == [tag |-> "over", len |-> 1001]

\* identifiers uuid.New() can return in the model
NewUUIDs == {L1, L2}
SeqUUIDs == {L1}

(* ---------------------------- record model ----------------------------- *)
\* variant: updatedAt stamped by a second, later clock reading
NewLaborLine_Restamped(input, t, laborLineID) ==
    [ LaborLineID |-> laborLineID,
      ContactID   |-> input.ContactID,
      AccountID   |-> input.AccountID,
      TaskID      |-> input.TaskID,
      PartID      |-> input.PartID,
      Notes       |-> input.Notes,
      CreatedAt   |-> t,
      UpdatedAt   |-> t + 1,
      DeletedAt   |-> None,
      PK          |-> input.AccountID,
      SK          |-> input.TaskID \o <<"#">> \o laborLineID ]

\* variant: the partition key taken from the task
NewLaborLine_TaskPartition(input, t, laborLineID) ==
    [ LaborLineID |-> laborLineID,
      ContactID   |-> input.ContactID,
      AccountID   |-> input.AccountID,
      TaskID      |-> input.TaskID,
      PartID      |-> input.PartID,
      Notes       |-> input.Notes,
      CreatedAt   |-> t,
      UpdatedAt   |-> t,
      DeletedAt   |-> None,
      PK          |-> input.TaskID,
      SK          |-> input.TaskID \o <<"#">> \o laborLineID ]

NewLaborLine(input, t, laborLineID) ==
    [ LaborLineID |-> laborLineID,
      ContactID   |-> input.ContactID,
      AccountID   |-> input.AccountID,
      TaskID      |-> input.TaskID,
      PartID      |-> input.PartID,
      Notes       |-> input.Notes,
      CreatedAt   |-> t,
      UpdatedAt   |-> t,
      DeletedAt   |-> None,
      PK          |-> input.AccountID,
      SK          |-> input.TaskID \o <<"#">> \o laborLineID ]

ToLaborLine(input, t) ==
    [ LaborLineID |-> input.LaborLineID,
      ContactID   |-> input.ContactID,
      AccountID   |-> input.AccountID,
      TaskID      |-> input.TaskID,
      PartID      |-> input.PartID,
      Notes       |-> input.Notes,
      CreatedAt   |-> 0,
      UpdatedAt   |-> t,
      DeletedAt   |-> None,
      PK          |-> input.AccountID,
      SK          |-> input.TaskID \o <<"#">> \o input.LaborLineID ]

IsDeleted(ll) == ll.DeletedAt # None

\* variant: a soft delete that refreshes updatedAt only
SoftDelete_NoTombstone(ll, t) == [ll EXCEPT !.UpdatedAt = t]

\* variant: a soft delete that leaves updatedAt as it was
SoftDelete_StaleUpdatedAt(ll, t) == [ll EXCEPT !.DeletedAt = Some(t)]

SoftDelete(ll, t) == [ll EXCEPT !.DeletedAt = Some(t), !.UpdatedAt = t]

(* ------------------- attributevalue (dynamodbav tags) ------------------- *)
\* a Go slice is None (nil) or Some(sequence); omitempty drops nil and empty
OmitEmptySlice(s) == IF s = None \/ s[1] = <<>> THEN None ELSE s

\* variant: the contactId attribute missing from the stored item
MarshalMap_DropsContact(ll) ==
    [ laborLineId |-> ll.LaborLineID,
      contactId   |-> Empty,
      accountId   |-> ll.AccountID,
      taskId      |-> ll.TaskID,
      partId      |-> OmitEmptySlice(ll.PartID),
      notes       |-> OmitEmptySlice(ll.Notes),
      createdAt   |-> ll.CreatedAt,
      updatedAt   |-> ll.UpdatedAt,
      deletedAt   |-> ll.DeletedAt,
      PK          |-> ll.PK,
      SK          |-> ll.SK ]

MarshalMap(ll) ==
    [ laborLineId |-> ll.LaborLineID,
      contactId   |-> ll.ContactID,
      accountId   |-> ll.AccountID,
      taskId      |-> ll.TaskID,
      partId      |-> OmitEmptySlice(ll.PartID),
      notes       |-> OmitEmptySlice(ll.Notes),
      createdAt   |-> ll.CreatedAt,
      updatedAt   |-> ll.UpdatedAt,
      deletedAt   |-> ll.DeletedAt,
      PK          |-> ll.PK,
      SK          |-> ll.SK ]

UnmarshalMap(item) ==
    [ LaborLineID |-> item.laborLineId,
      ContactID   |-> item.contactId,
      AccountID   |-> item.accountId,
      TaskID      |-> item.taskId,
      PartID      |-> item.partId,
      Notes       |-> item.notes,
      CreatedAt   |-> item.createdAt,
      UpdatedAt   |-> item.updatedAt,
      DeletedAt   |-> item.deletedAt,
      PK          |-> item.PK,
      SK          |-> item.SK ]

(* ------------------------- the table (client) -------------------------- *)
KeyOf(item) == <<item.PK, item.SK>>

Exists(tbl, key) == key \in DOMAIN tbl

\* variant: a write that leaves only the written item in the table
Put_DropsOthers(tbl, item) == [k \in {KeyOf(item)} |-> item]

Put(tbl, item) ==
    [k \in (DOMAIN tbl) \cup {KeyOf(item)} |->
        IF k = KeyOf(item) THEN item ELSE tbl[k]]

\* GetItem: None when the key holds no item
GetItem(tbl, key) == IF Exists(tbl, key) THEN Some(tbl[key]) ELSE None

IsPrefix(p, s) == Len(p) <= Len(s) /\ SubSeq(s, 1, Len(p)) = p


\* byte order of the characters used in the model (ASCII order)
CharRank(c) ==
    CASE c = "#" -> 1 [] c = "1" -> 2 [] c = "2" -> 3 [] c = "a" -> 4
      [] c = "c" -> 5 [] c = "l" -> 6 [] c = "p" -> 7 [] c = "t" -> 8
      [] c = "u" -> 9 [] OTHER -> 10

RECURSIVE LexLess(_, _)
LexLess(s, t) ==
    IF t = <<>> THEN FALSE
    ELSE IF s = <<>> THEN TRUE
    ELSE IF CharRank(Head(s)) # CharRank(Head(t))
         THEN CharRank(Head(s)) < CharRank(Head(t))
         ELSE LexLess(Tail(s), Tail(t))

\* the items of a partition come back in ascending sort-key order
RECURSIVE SortBySK(_)
SortBySK(S) ==
    IF S = {} THEN <<>>
    ELSE LET m == CHOOSE x \in S : \A y \in S \ {x} : LexLess(x.SK, y.SK)
         IN  <<m>> \o SortBySK(S \ {m})

\* Query with KeyConditionExpression "PK = :pk AND begins_with(SK, :skPrefix)"
QueryPrefix(tbl, pk, skPrefix) ==
    SortBySK({tbl[k] : k \in {kk \in DOMAIN tbl :
                 kk[1] = pk /\ IsPrefix(skPrefix, kk[2])}})

\* variant: a scan of the whole table in place of the partition query
QueryPartition_AllAccounts(tbl, pk) == SortBySK({tbl[k] : k \in DOMAIN tbl})

\* Query with KeyConditionExpression "PK = :pk"
QueryPartition(tbl, pk) ==
    SortBySK({tbl[k] : k \in {kk \in DOMAIN tbl : kk[1] = pk}})

\* ConditionExpression of the three PutItem calls, evaluated on the item
\* currently stored at the key of the item being written
\* variant: the create written without its condition expression
CreateCondition_Always(tbl, key) == TRUE

CreateCondition(tbl, key) == ~Exists(tbl, key)

\* variant: the update condition without attribute_not_exists(deletedAt)
UpdateCondition_ExistsOnly(tbl, key) == Exists(tbl, key)

UpdateCondition(tbl, key) == Exists(tbl, key) /\ tbl[key].deletedAt = None

\* variant: the delete condition with attribute_not_exists(deletedAt) added
DeleteCondition_NotDeleted(tbl, key) == Exists(tbl, key) /\ tbl[key].deletedAt = None

\* variant: a delete whose conditional write is always rejected
DeleteCondition_Rejects(tbl, key) == FALSE

DeleteCondition(tbl, key) == Exists(tbl, key)

(* --------------------------- persistence adapter ----------------------- *)
GetKey(input) == <<input.AccountID, input.TaskID \o <<"#">> \o input.LaborLineID>>

\* variant: the update writes the record as ToLaborLine built it
PreserveCreatedAt_Dropped(laborLine, existing) == laborLine

\* variant: notes omitted from the input kept from the existing record
PreserveCreatedAt_KeepsNotes(laborLine, existing) ==
    [laborLine EXCEPT !.CreatedAt = existing.CreatedAt,
                      !.Notes = IF @ = None THEN existing.Notes ELSE @]

\* UpdateLaborLine: "laborLine.CreatedAt = existing.CreatedAt"
PreserveCreatedAt(laborLine, existing) ==
    [laborLine EXCEPT !.CreatedAt = existing.CreatedAt]

\* variant: the soft-delete check of GetLaborLine left out
GetLaborLine_ReturnsDeleted(result) ==
    IF result = None THEN None ELSE Some(UnmarshalMap(result[1]))

\* GetLaborLine after a successful GetItem: nil for a missing or soft-deleted
\* item, the unmarshalled record otherwise
GetLaborLine(result) ==
    IF result = None THEN None
    ELSE IF IsDeleted(UnmarshalMap(result[1])) THEN None
    ELSE Some(UnmarshalMap(result[1]))

\* the loop of ListLaborLines over result.Items; a nil slice is None
RECURSIVE AppendLive(_, _)
AppendLive(laborLines, items) ==
    IF items = <<>> THEN laborLines
    ELSE LET laborLine == UnmarshalMap(Head(items))
         IN  IF ~IsDeleted(laborLine)
             THEN AppendLive(Some((IF laborLines = None THEN <<>> ELSE laborLines[1])
                                   \o <<laborLine>>), Tail(items))
             ELSE AppendLive(laborLines, Tail(items))

ListLaborLines(items) == AppendLive(None, items)

ListQuery(tbl, input) ==
    IF input.TaskID # Empty
    THEN QueryPrefix(tbl, input.AccountID, input.TaskID \o <<"#">>)
    ELSE QueryPartition(tbl, input.AccountID)


(* ------------------------------ validation ----------------------------- *)
NotesMinLength == 1
NotesMaxLength == 1000

\* the canonical textual form of a UUID, in the model: a letter and a digit
Canonical(s) ==
    Len(s) = 2 /\ s[1] \in {"a", "c", "l", "p", "t"} /\ s[2] \in {"1", "2"}

\* uuid.Parse also accepts the urn:uuid:, braced and un-hyphenated forms;
\* in the model those are a canonical form behind the character "u"
UuidParse(s) == Canonical(s) \/ (Len(s) = 3 /\ s[1] = "u" /\ Canonical(Tail(s)))

\* the schema's "format": "uuid" accepts the canonical form only
\* variant: a format check as lenient as uuid.Parse
FormatUUID_Lenient(s) == UuidParse(s)

FormatUUID(s) == Canonical(s)

UuidError(field, index) ==
    Some([kind |-> "uuid", field |-> field, index |-> index, errors |-> {}])

\* variant: the accountId looked at before the laborLineId
validateUUIDs_AccountFirst(data) ==
    IF ~UuidParse(data.accountId) THEN UuidError("accountId", 0)
    ELSE IF ~UuidParse(data.laborLineId) THEN UuidError("laborLineId", 0)
    ELSE IF ~UuidParse(data.taskId) THEN UuidError("taskId", 0)
    ELSE IF data.partId # None /\ \E i \in 1..Len(data.partId[1]) : ~UuidParse(data.partId[1][i])
    THEN LET bad == {i \in 1..Len(data.partId[1]) : ~UuidParse(data.partId[1][i])}
             first == CHOOSE i \in bad : \A j \in bad : i <= j
         IN  UuidError("partId", first - 1)
    ELSE None

validateUUIDs(data) ==
    IF ~UuidParse(data.laborLineId) THEN UuidError("laborLineId", 0)
    ELSE IF ~UuidParse(data.accountId) THEN UuidError("accountId", 0)
    ELSE IF ~UuidParse(data.taskId) THEN UuidError("taskId", 0)
    ELSE IF data.partId # None /\ \E i \in 1..Len(data.partId[1]) : ~UuidParse(data.partId[1][i])
    THEN LET bad == {i \in 1..Len(data.partId[1]) : ~UuidParse(data.partId[1][i])}
             first == CHOOSE i \in bad : \A j \in bad : i <= j
         IN  UuidError("partId", first - 1)
    ELSE None

SchemaErrors(data) ==
    {[field |-> f, index |-> 0, rule |-> "format"] :
        f \in {g \in {"laborLineId", "accountId", "taskId"} : ~FormatUUID(data[g])}}
    \cup (IF data.partId = None THEN {}
          ELSE {[field |-> "partId", index |-> i, rule |-> "format"] :
                    i \in {j \in 1..Len(data.partId[1]) : ~FormatUUID(data.partId[1][j])}}
               \cup (IF \E i, j \in 1..Len(data.partId[1]) :
                            i # j /\ data.partId[1][i] = data.partId[1][j]
                     THEN {[field |-> "partId", index |-> 0, rule |-> "uniqueItems"]}
                     ELSE {}))
    \cup (IF data.notes = None THEN {}
          ELSE {[field |-> "notes", index |-> i, rule |-> "minLength"] :
                    i \in {j \in 1..Len(data.notes[1]) : data.notes[1][j].len < NotesMinLength}}
               \cup {[field |-> "notes", index |-> i, rule |-> "maxLength"] :
                    i \in {j \in 1..Len(data.notes[1]) : data.notes[1][j].len > NotesMaxLength}})

\* variant: a validator that accepts every input
validateData_Accepts(data) == None

validateData(data) ==
    IF validateUUIDs(data) # None THEN validateUUIDs(data)
    ELSE IF SchemaErrors(data) # {}
    THEN Some([kind |-> "schema", field |-> "", index |-> 0, errors |-> SchemaErrors(data)])
    ELSE None

\* tempID is the uuid.New() placeholder, a canonical identifier
ValidateCreateInput(input, tempID) ==
    validateData([laborLineId |-> tempID, accountId |-> input.AccountID,
                  taskId |-> input.TaskID, partId |-> input.PartID,
                  notes |-> input.Notes])

ValidateUpdateInput(input) ==
    validateData([laborLineId |-> input.LaborLineID, accountId |-> input.AccountID,
                  taskId |-> input.TaskID, partId |-> input.PartID,
                  notes |-> input.Notes])

(* ------------------------- events and responses ------------------------ *)
OpNames == {"createLaborLine", "updateLaborLine", "deleteLaborLine",
            "getLaborLine", "listLaborLines"}

\* GetInputArgument: arguments["input"] is missing (None, the target keeps its
\* zero value), or a bag that json.Unmarshal accepts or rejects
ZeroBag == [laborLineId |-> Empty, contactId |-> Empty, accountId |-> Empty,
            taskId |-> Empty, partId |-> None, notes |-> None, wellTyped |-> TRUE]

Bag(event) == IF event.Arguments = None THEN ZeroBag ELSE event.Arguments[1]

DecodeFails(event) == ~Bag(event).wellTyped

CreateLaborLineInput(event) ==
    [ContactID |-> Bag(event).contactId, AccountID |-> Bag(event).accountId,
     TaskID |-> Bag(event).taskId, PartID |-> Bag(event).partId,
     Notes |-> Bag(event).notes]

UpdateLaborLineInput(event) ==
    [LaborLineID |-> Bag(event).laborLineId, ContactID |-> Bag(event).contactId,
     AccountID |-> Bag(event).accountId, TaskID |-> Bag(event).taskId,
     PartID |-> Bag(event).partId, Notes |-> Bag(event).notes]

GetLaborLineInput(event) ==
    [AccountID |-> Bag(event).accountId, TaskID |-> Bag(event).taskId,
     LaborLineID |-> Bag(event).laborLineId]

DeleteLaborLineInput(event) == GetLaborLineInput(event)

ListLaborLinesInput(event) ==
    [AccountID |-> Bag(event).accountId, TaskID |-> Bag(event).taskId]

\* Data interface{}: untyped nil, *LaborLine (val None is a nil pointer),
\* []*LaborLine (val None is a nil slice) or the delete acknowledgement map
NilData == [kind |-> "nil", val |-> None]
LaborLineData(ptr) == [kind |-> "LaborLine", val |-> ptr]
ListData(slice) == [kind |-> "list", val |-> slice]
DeletedData == [kind |-> "map", val |-> Some([success |-> TRUE,
                    message |-> "labor line deleted successfully"])]

\* variant: a handler that propagates the failure as (nil, err)
ErrorReturn_AsGoError(message, type) ==
    [resp |-> None, err |-> Some([Message |-> message, Type |-> type])]

\* what a handler returns: (*AppSyncResponse, error)
ErrorReturn(message, type) ==
    [resp |-> Some([Data |-> NilData,
                    Error |-> Some([Message |-> message, Type |-> type])]),
     err  |-> None]

DataReturn(data) ==
    [resp |-> Some([Data |-> data, Error |-> None]), err |-> None]

\* variant: the default branch answering like a persistence failure
UnsupportedReturn_Internal(fieldName) ==
    [resp |-> Some([Data |-> [kind |-> "nil", val |-> None],
                    Error |-> Some([Message |-> <<"unsupported operation: ", fieldName>>,
                                    Type |-> "InternalError"])]),
     err  |-> None]

UnsupportedReturn(fieldName) ==
    ErrorReturn(<<"unsupported operation: ", fieldName>>, "UnsupportedOperation")

\* variant: a rejected conditional write answered as a conflict
AdapterError_Conflict(message, err) ==
    ErrorReturn(message, IF err = "ConditionalCheckFailedException"
                         THEN "ConflictError" ELSE "InternalError")

\* the handlers' "if err != nil" branch after a call of the persistence
\* adapter: err is logged and the response has the type InternalError
AdapterError(message, err) == ErrorReturn(message, "InternalError")

\* variant: a missing record answered like a persistence failure
NotFoundReturn_Internal ==
    ErrorReturn(<<"failed to get labor line">>, "InternalError")

\* handleGet's answer to a nil record
NotFoundReturn == ErrorReturn(<<"labor line not found">>, "NotFound")

\* encoding/json of the response: "data" is a non-null payload
HasData(resp) == resp.Data.kind # "nil" /\ resp.Data.val # None

\* encoding/json of a LaborLine (json tags: omitempty, PK and SK dropped)
JsonLaborLine(ll) ==
    [ laborLineId |-> ll.LaborLineID,
      contactId   |-> ll.ContactID,
      accountId   |-> ll.AccountID,
      taskId      |-> ll.TaskID,
      partId      |-> OmitEmptySlice(ll.PartID),
      notes       |-> OmitEmptySlice(ll.Notes),
      createdAt   |-> ll.CreatedAt,
      updatedAt   |-> ll.UpdatedAt,
      deletedAt   |-> ll.DeletedAt ]


(* ------------------------------- inputs -------------------------------- *)
BadID == <<"z">>

KeyBag(l, a, t) ==
    [laborLineId |-> l, contactId |-> Empty, accountId |-> a, taskId |-> t,
     partId |-> None, notes |-> None, wellTyped |-> TRUE]

MutationBag(l, a, t, parts, n) ==
    [laborLineId |-> l, contactId |-> C1, accountId |-> a, taskId |-> t,
     partId |-> parts, notes |-> n, wellTyped |-> TRUE]

IllTypedBag == [ZeroBag EXCEPT !.wellTyped = FALSE]

\* the resolver puts the operation name in info.fieldName
Event(fieldName, bag) ==
    [FieldName |-> "", Info |-> [FieldName |-> fieldName],
     Arguments |-> Some(bag)]

UnknownNames == {"bogusOperation"}

\* an event built with the operation name in the top-level fieldName and
\* the info object left at its zero value
TopLevelEvent(fieldName, bag) ==
    [FieldName |-> fieldName, Info |-> [FieldName |-> ""],
     Arguments |-> Some(bag)]

\* events of the interleaved specification: two invocations at a time on
\* the records of one account and task, with one ill-typed and one invalid
\* input
CreateEvents ==
    {Event("createLaborLine", b) :
        b \in {MutationBag(Empty, A1, T1, None, n) : n \in {None, Some(<<N1>>)}}
              \cup {IllTypedBag}}

UpdateEvents ==
    {Event("updateLaborLine", b) :
        b \in {MutationBag(L1, A1, T1, None, n) : n \in {None, Some(<<N2>>)}}
              \cup {MutationBag(BadID, A1, T1, None, None)}}

KeyEvents(fieldName) == {Event(fieldName, KeyBag(L1, A1, T1))}

ListEvents ==
    {Event("listLaborLines", b) :
        b \in {KeyBag(Empty, A1, T1), KeyBag(Empty, A1, Empty)}}

UnsupportedEvents == {Event(f, ZeroBag) : f \in UnknownNames}

\* events of the sequential specification: one invocation at a time, with
\* part lists, empty lists, a second account and a second task, a create
\* whose arguments carry a laborLineId of the caller, and an ill-typed input
\* for every operation
SeqCreateEvents ==
    {Event("createLaborLine", b) :
        b \in {MutationBag(Empty, A1, T1, None, n) : n \in {None, Some(<<>>), Some(<<N1>>)}}
              \cup {MutationBag(Empty, A1, T1, Some(<<P1>>), None),
                    MutationBag(Empty, A2, T2, None, None),
                    MutationBag(BadID, A1, T1, None, Some(<<N1>>)),
                    MutationBag(Empty, A1, T1, None, Some(<<N0>>)),
                    MutationBag(Empty, BadID, T1, None, None), IllTypedBag}}

SeqUpdateEvents ==
    {Event("updateLaborLine", b) :
        b \in {MutationBag(L1, A1, T1, None, n) : n \in {None, Some(<<N2>>)}}
              \cup {MutationBag(BadID, A1, T1, None, None), IllTypedBag}}

SeqUnsupportedEvents ==
    UnsupportedEvents
    \cup {TopLevelEvent(f, KeyBag(L1, A1, T1)) : f \in {"getLaborLine", "deleteLaborLine"}}

SeqKeyEvents(fieldName) ==
    {Event(fieldName, b) : b \in {KeyBag(L1, A1, T1), IllTypedBag}}

SeqListEvents ==
    {Event("listLaborLines", b) :
        b \in {KeyBag(Empty, A1, T1), KeyBag(Empty, A1, Empty),
               KeyBag(Empty, A2, T1), KeyBag(Empty, A1, <<"t">>), IllTypedBag}}

(* -------------------------------- state -------------------------------- *)
\* targetLive is history: the update's target was stored and not
\* tombstoned when the event was dispatched
Idle == [pc |-> "idle", event |-> None, laborLine |-> None, item |-> None,
         items |-> <<>>, err |-> "", calls |-> <<>>, nvalid |-> 0, ret |-> None,
         targetLive |-> FALSE]

Init ==
    /\ store = <<>>
    /\ now = 1
    /\ inv = [p \in Procs |-> Idle]
    /\ nops = 0
    /\ journal = <<>>

Done(p) == inv[p].pc = "done"
RespOf(rec) == rec.ret[1].resp[1]
Resp(p) == RespOf(inv[p])
FieldOf(p) == inv[p].event[1].Info.FieldName

\* the invocation ends: its locals, the client error and the returned pair
Finish(p, rec, clientErr, ret) ==
    inv' = [inv EXCEPT ![p] = [rec EXCEPT !.pc = "done", !.err = clientErr,
                                          !.ret = Some(ret)]]

Begin(p, event) ==
    /\ inv[p].pc = "idle"
    /\ nops' = nops + 1

Started(p, event) == [inv[p] EXCEPT !.event = Some(event)]

\* history of the successful writes at each key: the record the create
\* returned, the record and kind of the latest write, the writes since create
Journal(jr, kind, laborLine) ==
    LET key == <<laborLine.PK, laborLine.SK>>
    IN  [k \in (DOMAIN jr) \cup {key} |->
           IF k # key THEN jr[k]
           ELSE IF kind = "create" \/ key \notin DOMAIN jr
                THEN [created |-> laborLine, last |-> kind,
                      written |-> laborLine, writes |-> 0]
                ELSE [jr[k] EXCEPT !.last = kind, !.written = laborLine,
                                   !.writes = @ + 1]]

(* ------------------------------ dispatcher ----------------------------- *)
HandleUnsupported(p, event) ==
    /\ Begin(p, event)
    /\ event.Info.FieldName \notin OpNames
    /\ Finish(p, Started(p, event), "", UnsupportedReturn(event.Info.FieldName))
    /\ UNCHANGED <<store, now, journal>>

HandleCreate(p, event, tempID, laborLineID) ==
    /\ Begin(p, event)
    /\ event.Info.FieldName = "createLaborLine"
    /\ LET input == CreateLaborLineInput(event)
           verr  == ValidateCreateInput(input, tempID)
           rec   == Started(p, event)
       IN  IF DecodeFails(event)
           THEN Finish(p, rec, "", ErrorReturn(<<"invalid input: ">>, "ValidationError"))
           ELSE IF verr # None
           THEN Finish(p, [rec EXCEPT !.nvalid = 1], "",
                       ErrorReturn(<<"validation failed: ", verr[1]>>, "ValidationError"))
           ELSE inv' = [inv EXCEPT ![p] =
                          [rec EXCEPT !.nvalid = 1, !.pc = "create_put",
                                      !.laborLine = Some(NewLaborLine(input, now, laborLineID))]]
    /\ UNCHANGED <<store, now, journal>>

\* variant: a create that calls PutItem again after a failed call
CreatePut_Retries(p, fails) ==
    /\ inv[p].pc = "create_put"
    /\ LET laborLine == inv[p].laborLine[1]
           item == MarshalMap(laborLine)
           rec  == [inv[p] EXCEPT !.calls = Append(@, "PutItem")]
           failed(e) == AdapterError(<<"failed to create labor line">>, e)
       IN  IF fails
           THEN /\ Len(inv[p].calls) < 2
                /\ inv' = [inv EXCEPT ![p] = rec]
                /\ UNCHANGED <<store, journal>>
           ELSE IF ~CreateCondition(store, KeyOf(item))
           THEN Finish(p, rec, "ConditionalCheckFailedException", failed("ConditionalCheckFailedException"))
                /\ UNCHANGED <<store, journal>>
           ELSE /\ store' = Put(store, item)
                /\ journal' = Journal(journal, "create", laborLine)
                /\ Finish(p, rec, "", DataReturn(LaborLineData(Some(laborLine))))
    /\ UNCHANGED <<now, nops>>

CreatePut(p, fails) ==
    /\ inv[p].pc = "create_put"
    /\ LET laborLine == inv[p].laborLine[1]
           item == MarshalMap(laborLine)
           rec  == [inv[p] EXCEPT !.calls = Append(@, "PutItem")]
           failed(e) == AdapterError(<<"failed to create labor line">>, e)
       IN  IF fails
           THEN Finish(p, rec, "ServiceError", failed("ServiceError")) /\ UNCHANGED <<store, journal>>
           ELSE IF ~CreateCondition(store, KeyOf(item))
           THEN Finish(p, rec, "ConditionalCheckFailedException", failed("ConditionalCheckFailedException"))
                /\ UNCHANGED <<store, journal>>
           ELSE /\ store' = Put(store, item)
                /\ journal' = Journal(journal, "create", laborLine)
                /\ Finish(p, rec, "", DataReturn(LaborLineData(Some(laborLine))))
    /\ UNCHANGED <<now, nops>>

HandleUpdate(p, event) ==
    /\ Begin(p, event)
    /\ event.Info.FieldName = "updateLaborLine"
    /\ LET input == UpdateLaborLineInput(event)
           verr  == ValidateUpdateInput(input)
           rec   == Started(p, event)
       IN  IF DecodeFails(event)
           THEN Finish(p, rec, "", ErrorReturn(<<"invalid input: ">>, "ValidationError"))
           ELSE IF verr # None
           THEN Finish(p, [rec EXCEPT !.nvalid = 1], "",
                       ErrorReturn(<<"validation failed: ", verr[1]>>, "ValidationError"))
           ELSE inv' = [inv EXCEPT ![p] =
                          [rec EXCEPT !.nvalid = 1, !.pc = "update_get",
                                      !.laborLine = Some(ToLaborLine(input, now)),
                                      !.targetLive = UpdateCondition(store, GetKey(input))]]
    /\ UNCHANGED <<store, now, journal>>

\* UpdateLaborLine up to "laborLine.CreatedAt = existing.CreatedAt"
UpdateGet(p, fails) ==
    /\ inv[p].pc = "update_get"
    /\ LET laborLine == inv[p].laborLine[1]
           result == GetItem(store, KeyOf(laborLine))
           existing == GetLaborLine(result)
           rec  == [inv[p] EXCEPT !.calls = Append(@, "GetItem")]
           failed(e) == AdapterError(<<"failed to update labor line">>, e)
       IN  IF fails
           THEN Finish(p, rec, "ServiceError", failed("ServiceError"))
           ELSE IF existing = None
           THEN Finish(p, [rec EXCEPT !.item = result], "labor line not found", failed("labor line not found"))
           ELSE inv' = [inv EXCEPT ![p] =
                          [rec EXCEPT !.item = result, !.pc = "update_put",
                               !.laborLine = Some(PreserveCreatedAt(laborLine, existing[1]))]]
    /\ UNCHANGED <<store, now, nops, journal>>

UpdatePut(p, fails) ==
    /\ inv[p].pc = "update_put"
    /\ LET laborLine == inv[p].laborLine[1]
           item == MarshalMap(laborLine)
           rec  == [inv[p] EXCEPT !.calls = Append(@, "PutItem")]
           failed(e) == AdapterError(<<"failed to update labor line">>, e)
       IN  IF fails
           THEN Finish(p, rec, "ServiceError", failed("ServiceError")) /\ UNCHANGED <<store, journal>>
           ELSE IF ~UpdateCondition(store, KeyOf(item))
           THEN Finish(p, rec, "ConditionalCheckFailedException", failed("ConditionalCheckFailedException"))
                /\ UNCHANGED <<store, journal>>
           ELSE /\ store' = Put(store, item)
                /\ journal' = Journal(journal, "update", laborLine)
                /\ inv' = [inv EXCEPT ![p] = [rec EXCEPT !.pc = "update_refetch"]]
    /\ UNCHANGED <<now, nops>>

\* variant: the update answered with the record the handler built
UpdatedLaborLine_Local(refetched, laborLine) == Some(laborLine)

\* the record handleUpdate returns: the one its GetLaborLine read back
UpdatedLaborLine(refetched, laborLine) == refetched

\* handleUpdate's GetLaborLine after the write
UpdateRefetch(p, fails) ==
    /\ inv[p].pc = "update_refetch"
    /\ LET input == GetLaborLineInput(inv[p].event[1])
           result == GetItem(store, GetKey(input))
           rec  == [inv[p] EXCEPT !.calls = Append(@, "GetItem")]
       IN  IF fails
           THEN Finish(p, rec, "ServiceError",
                       AdapterError(<<"failed to retrieve updated labor line">>, "ServiceError"))
           ELSE Finish(p, [rec EXCEPT !.item = result], "",
                       DataReturn(LaborLineData(
                           UpdatedLaborLine(GetLaborLine(result), inv[p].laborLine[1]))))
    /\ UNCHANGED <<store, now, nops, journal>>


HandleDelete(p, event, fails) ==
    /\ Begin(p, event)
    /\ event.Info.FieldName = "deleteLaborLine"
    /\ LET input == DeleteLaborLineInput(event)
           result == GetItem(store, GetKey(input))
           existing == GetLaborLine(result)
           rec  == Started(p, event)
           called == [rec EXCEPT !.calls = Append(@, "GetItem")]
           failed(e) == AdapterError(<<"failed to delete labor line">>, e)
       IN  IF DecodeFails(event)
           THEN Finish(p, rec, "", ErrorReturn(<<"invalid input: ">>, "ValidationError"))
           ELSE IF fails
           THEN Finish(p, called, "ServiceError", failed("ServiceError"))
           ELSE IF existing = None
           THEN Finish(p, [called EXCEPT !.item = result], "labor line not found", failed("labor line not found"))
           ELSE inv' = [inv EXCEPT ![p] =
                          [called EXCEPT !.item = result, !.pc = "delete_softdelete",
                                         !.laborLine = existing]]
    /\ UNCHANGED <<store, now, journal>>

\* existing.SoftDelete() reads the clock between the lookup and the write
DeleteSoftDelete(p) ==
    /\ inv[p].pc = "delete_softdelete"
    /\ inv' = [inv EXCEPT ![p].pc = "delete_put",
                          ![p].laborLine = Some(SoftDelete(inv[p].laborLine[1], now))]
    /\ UNCHANGED <<store, now, nops, journal>>

DeletePut(p, fails) ==
    /\ inv[p].pc = "delete_put"
    /\ LET laborLine == inv[p].laborLine[1]
           item == MarshalMap(laborLine)
           rec  == [inv[p] EXCEPT !.calls = Append(@, "PutItem")]
           failed(e) == AdapterError(<<"failed to delete labor line">>, e)
       IN  IF fails
           THEN Finish(p, rec, "ServiceError", failed("ServiceError")) /\ UNCHANGED <<store, journal>>
           ELSE IF ~DeleteCondition(store, KeyOf(item))
           THEN Finish(p, rec, "ConditionalCheckFailedException", failed("ConditionalCheckFailedException"))
                /\ UNCHANGED <<store, journal>>
           ELSE /\ store' = Put(store, item)
                /\ journal' = Journal(journal, "delete", laborLine)
                /\ Finish(p, rec, "", DataReturn(DeletedData))
    /\ UNCHANGED <<now, nops>>

HandleGet(p, event, fails) ==
    /\ Begin(p, event)
    /\ event.Info.FieldName = "getLaborLine"
    /\ LET input == GetLaborLineInput(event)
           result == GetItem(store, GetKey(input))
           laborLine == GetLaborLine(result)
           rec  == Started(p, event)
           called == [rec EXCEPT !.calls = Append(@, "GetItem")]
       IN  IF DecodeFails(event)
           THEN Finish(p, rec, "", ErrorReturn(<<"invalid input: ">>, "ValidationError"))
           ELSE IF fails
           THEN Finish(p, called, "ServiceError",
                       AdapterError(<<"failed to get labor line">>, "ServiceError"))
           ELSE IF laborLine = None
           THEN Finish(p, [called EXCEPT !.item = result], "", NotFoundReturn)
           ELSE Finish(p, [called EXCEPT !.item = result], "",
                       DataReturn(LaborLineData(laborLine)))
    /\ UNCHANGED <<store, now, journal>>

HandleList(p, event, fails) ==
    /\ Begin(p, event)
    /\ event.Info.FieldName = "listLaborLines"
    /\ LET input == ListLaborLinesInput(event)
           items == ListQuery(store, input)
           rec  == Started(p, event)
           called == [rec EXCEPT !.calls = Append(@, "Query")]
       IN  IF DecodeFails(event)
           THEN Finish(p, rec, "", ErrorReturn(<<"invalid input: ">>, "ValidationError"))
           ELSE IF fails
           THEN Finish(p, called, "ServiceError",
                       AdapterError(<<"failed to list labor lines">>, "ServiceError"))
           ELSE Finish(p, [called EXCEPT !.items = items], "",
                       DataReturn(ListData(ListLaborLines(items))))
    /\ UNCHANGED <<store, now, journal>>

\* the response goes back to the Lambda runtime; the slot takes a new event
Return(p) ==
    /\ inv[p].pc = "done"
    /\ inv' = [inv EXCEPT ![p] = Idle]
    /\ UNCHANGED <<store, now, nops, journal>>

\* time.Now().Unix() never goes back
Tick ==
    /\ now < MaxClock
    /\ now' = now + 1
    /\ UNCHANGED <<store, inv, nops, journal>>

Next ==
    \/ \E p \in Procs, e \in UnsupportedEvents :
          nops < MaxOps /\ HandleUnsupported(p, e)
    \/ \E p \in Procs, e \in CreateEvents, t \in NewUUIDs, l \in NewUUIDs :
          nops < MaxOps /\ HandleCreate(p, e, t, l)
    \/ \E p \in Procs, f \in BOOLEAN : CreatePut(p, f)
    \/ \E p \in Procs, e \in UpdateEvents : nops < MaxOps /\ HandleUpdate(p, e)
    \/ \E p \in Procs, f \in BOOLEAN : UpdateGet(p, f)
    \/ \E p \in Procs, f \in BOOLEAN : UpdatePut(p, f)
    \/ \E p \in Procs, f \in BOOLEAN : UpdateRefetch(p, f)
    \/ \E p \in Procs, e \in KeyEvents("deleteLaborLine"), f \in BOOLEAN :
          nops < MaxOps /\ HandleDelete(p, e, f)
    \/ \E p \in Procs : DeleteSoftDelete(p)
    \/ \E p \in Procs, f \in BOOLEAN : DeletePut(p, f)
    \/ \E p \in Procs, e \in KeyEvents("getLaborLine"), f \in BOOLEAN :
          nops < MaxOps /\ HandleGet(p, e, f)
    \/ \E p \in Procs, e \in ListEvents, f \in BOOLEAN :
          nops < MaxOps /\ HandleList(p, e, f)
    \/ \E p \in Procs : Return(p)
    \/ Tick

Spec == Init /\ [][Next]_vars

\* one invocation at a time: the next event is taken when the response to
\* the previous one has been returned
SeqNext ==
    \/ \E e \in SeqUnsupportedEvents : nops < MaxSeqOps /\ HandleUnsupported(Main, e)
    \/ \E e \in SeqCreateEvents, t \in NewUUIDs, l \in SeqUUIDs :
          nops < MaxSeqOps /\ HandleCreate(Main, e, t, l)
    \/ \E f \in BOOLEAN : CreatePut(Main, f)
    \/ \E e \in SeqUpdateEvents : nops < MaxSeqOps /\ HandleUpdate(Main, e)
    \/ \E f \in BOOLEAN : UpdateGet(Main, f)
    \/ \E f \in BOOLEAN : UpdatePut(Main, f)
    \/ \E f \in BOOLEAN : UpdateRefetch(Main, f)
    \/ \E e \in SeqKeyEvents("deleteLaborLine"), f \in BOOLEAN :
          nops < MaxSeqOps /\ HandleDelete(Main, e, f)
    \/ DeleteSoftDelete(Main)
    \/ \E f \in BOOLEAN : DeletePut(Main, f)
    \/ \E e \in SeqKeyEvents("getLaborLine"), f \in BOOLEAN :
          nops < MaxSeqOps /\ HandleGet(Main, e, f)
    \/ \E e \in SeqListEvents, f \in BOOLEAN :
          nops < MaxSeqOps /\ HandleList(Main, e, f)
    \/ Return(Main)
    \/ Tick

SeqSpec == Init /\ [][SeqNext]_vars

\* a handler runs to its return statement and every client call returns,
\* with a result or with an error: each step of a started invocation is
\* taken once it is enabled
SeqSteps ==
    \/ \E f \in BOOLEAN : CreatePut(Main, f)
    \/ \E f \in BOOLEAN : UpdateGet(Main, f)
    \/ \E f \in BOOLEAN : UpdatePut(Main, f)
    \/ \E f \in BOOLEAN : UpdateRefetch(Main, f)
    \/ DeleteSoftDelete(Main)
    \/ \E f \in BOOLEAN : DeletePut(Main, f)

FairSeqSpec == SeqSpec /\ WF_vars(SeqSteps)

\* the validation stage alone: one create or update event, drawn from
\* identifiers in canonical, urn-prefixed, malformed and empty form, part
\* lists with duplicates and malformed elements, and notes of length 0, 1,
\* 1000 and 1001, taken up to the validator's verdict
Lax(id) == <<"u">> \o id

ValIDs(id) == {id, Lax(id), BadID, Empty}

ValParts ==
    {None, Some(<<>>), Some(<<P1>>), Some(<<P1, P2>>), Some(<<P1, P1>>),
     Some(<<BadID, P1>>), Some(<<P1, BadID>>), Some(<<BadID, BadID>>),
     Some(<<Lax(P1)>>), Some(<<Lax(P1), Lax(P1)>>)}

ValNotes ==
    {None, Some(<<>>), Some(<<NMin>>), Some(<<NMax>>), Some(<<N0>>),
     Some(<<NOver>>), Some(<<N0, NOver>>), Some(<<N1, N0>>)}

ValCreateEvents ==
    {Event("createLaborLine", MutationBag(Empty, a, t, parts, n)) :
        a \in ValIDs(A1), t \in ValIDs(T1), parts \in ValParts, n \in ValNotes}

ValUpdateEvents ==
    {Event("updateLaborLine", MutationBag(l, a, t, parts, n)) :
        l \in ValIDs(L1), a \in ValIDs(A1), t \in ValIDs(T1),
        parts \in ValParts, n \in ValNotes}

ValNext ==
    \/ \E e \in ValCreateEvents, t \in NewUUIDs, l \in SeqUUIDs :
          HandleCreate(Main, e, t, l)
    \/ \E e \in ValUpdateEvents : HandleUpdate(Main, e)

ValSpec == Init /\ [][ValNext]_vars


(* ------------------------------ properties ----------------------------- *)
Tombstone(result) == result # None /\ result[1].deletedAt # None

\* C1: no response carries a record whose deletedAt is present: a get (or the
\* re-fetch of an update) that finds a tombstone at the key answers without
\* data, and a list returns none of the tombstones its query read.
C1_TombstonesInvisible ==
    \A p \in Procs : Done(p) /\ inv[p].ret[1].resp # None =>
        LET data == Resp(p).Data
        IN  /\ data.kind = "LaborLine" /\ data.val # None => ~IsDeleted(data.val[1])
            /\ data.kind = "list" /\ data.val # None =>
                  \A i \in 1..Len(data.val[1]) : ~IsDeleted(data.val[1][i])
            /\ FieldOf(p) \in {"getLaborLine", "updateLaborLine"}
                  /\ inv[p].err = "" /\ Tombstone(inv[p].item) => ~HasData(Resp(p))
            /\ FieldOf(p) = "getLaborLine" /\ inv[p].err = "" /\ Tombstone(inv[p].item)
                  => Resp(p).Error # None /\ Resp(p).Error[1].Type = "NotFound"
            /\ data.kind = "list" =>
                  \A i \in 1..Len(inv[p].items) :
                      inv[p].items[i].deletedAt # None =>
                          (data.val = None \/
                           \A j \in 1..Len(data.val[1]) :
                               data.val[1][j].SK # inv[p].items[i].SK)

C1_Witness ==
    \E p \in Procs : /\ Done(p) /\ FieldOf(p) = "getLaborLine"
                     /\ inv[p].err = "" /\ Tombstone(inv[p].item)

\* C2: a create whose derived key already holds an item, live or tombstoned,
\* fails and leaves the table exactly as it was.
C2_CreateKeepsExisting ==
    [][\A p \in Procs :
          (/\ inv[p].pc = "create_put"
           /\ inv'[p].pc = "done"
           /\ Exists(store, KeyOf(MarshalMap(inv[p].laborLine[1]))))
          => /\ store' = store
             /\ RespOf(inv'[p]).Error # None
             /\ ~HasData(RespOf(inv'[p]))]_vars

C2_Witness ==
    \E p \in Procs :
        /\ Done(p) /\ FieldOf(p) = "createLaborLine"
        /\ inv[p].err = "ConditionalCheckFailedException"
        /\ Exists(store, KeyOf(MarshalMap(inv[p].laborLine[1])))
        /\ store[KeyOf(MarshalMap(inv[p].laborLine[1]))].deletedAt # None

\* C3: the createdAt stored at a key never changes once the create has
\* written it, whatever updates and deletes are applied to that key.
C3_CreatedAtFixed ==
    [][\A k \in DOMAIN store :
          k \in DOMAIN store' /\ store'[k].createdAt = store[k].createdAt]_vars

C3_Witness ==
    \E k \in DOMAIN journal :
        /\ journal[k].last = "delete" /\ journal[k].writes = 2
        /\ store[k].createdAt = journal[k].created.CreatedAt
        /\ store[k].updatedAt > store[k].createdAt

\* C4: every successful update write stores an updatedAt that is at least
\* the updatedAt stored at the key just before the write.
C4_UpdatedAtAdvances ==
    [][\A p \in Procs :
          (inv[p].pc = "update_put" /\ inv'[p].pc = "update_refetch"
             /\ inv[p].targetLive)
          => LET key == KeyOf(MarshalMap(inv[p].laborLine[1]))
             IN  store'[key].updatedAt >= store[key].updatedAt]_vars

\* C5: a delete that finds the tombstone left by an earlier delete answers
\* with an error of type NotFound and leaves the tombstone as it is.
C5_SecondDeleteNotFound ==
    \A p \in Procs :
        (/\ Done(p) /\ FieldOf(p) = "deleteLaborLine"
         /\ inv[p].err = "labor line not found" /\ Tombstone(inv[p].item))
        => /\ Resp(p).Error # None
           /\ Resp(p).Error[1].Type = "NotFound"

\* C6: every response holds exactly one of a non-null data payload and an
\* error.
C6_DataXorError ==
    \A p \in Procs : Done(p) /\ inv[p].ret[1].resp # None =>
        (HasData(Resp(p)) <=> Resp(p).Error = None)

\* C7: the dispatcher returns a response and a nil error on every path, and
\* every failure (decode, validation, not found, client error) is in the
\* response's error field.
C7_NoGoError ==
    \A p \in Procs : Done(p) =>
        /\ inv[p].ret[1].err = None
        /\ inv[p].ret[1].resp # None
        /\ (\/ DecodeFails(inv[p].event[1]) /\ FieldOf(p) \in OpNames
            \/ inv[p].err # ""
            \/ FieldOf(p) = "getLaborLine" /\ GetLaborLine(inv[p].item) = None)
           => Resp(p).Error # None

C7_Witness ==
    \E p \in Procs : /\ Done(p) /\ inv[p].err = "ServiceError"
                     /\ FieldOf(p) = "updateLaborLine"
                     /\ inv[p].calls = <<"GetItem", "PutItem", "GetItem">>

Answered(p, fieldName) ==
    /\ inv[p].pc = "idle"
    /\ inv'[p].pc = "done"
    /\ inv'[p].event[1].Info.FieldName = fieldName
    /\ ~DecodeFails(inv'[p].event[1])
    /\ inv'[p].err = ""

\* C9: a get of a key that a create wrote, with no write to that key since,
\* returns the record the create returned: the same laborLineId, contactId,
\* accountId, taskId, partId, notes, createdAt and updatedAt as serialised in
\* the response, and no deletedAt.
C9_RoundTrip ==
    [][\A p \in Procs :
          Answered(p, "getLaborLine") =>
             LET key == GetKey(GetLaborLineInput(inv'[p].event[1]))
                 data == RespOf(inv'[p]).Data
             IN  key \in DOMAIN journal /\ journal[key].writes = 0 =>
                    /\ RespOf(inv'[p]).Error = None
                    /\ data.kind = "LaborLine"
                    /\ data.val # None
                    /\ JsonLaborLine(data.val[1]) = JsonLaborLine(journal[key].created)
                    /\ data.val[1].DeletedAt = None]_vars

C9_Witness ==
    \E p \in Procs :
        /\ Done(p) /\ FieldOf(p) = "getLaborLine" /\ HasData(Resp(p))
        /\ LET key == GetKey(GetLaborLineInput(inv[p].event[1]))
           IN  /\ key \in DOMAIN journal
               /\ journal[key].writes = 0
               /\ journal[key].created.Notes = Some(<<>>)
               /\ Resp(p).Data.val[1].UpdatedAt = journal[key].created.UpdatedAt

ListMatches(input, key) ==
    /\ key[1] = input.AccountID
    /\ input.TaskID = Empty \/ IsPrefix(input.TaskID \o <<"#">>, key[2])

\* C10: after a create, a get that follows an update of the record returns
\* the update's notes and the createdAt of the create; a get that follows the
\* delete of the record returns not-found, and a list of the account and task
\* whose records are all deleted returns no records.
C10_Lifecycle ==
    [][\A p \in Procs :
          /\ Answered(p, "getLaborLine") =>
                LET key == GetKey(GetLaborLineInput(inv'[p].event[1]))
                    resp == RespOf(inv'[p])
                IN  /\ key \in DOMAIN journal /\ journal[key].last = "update" =>
                          /\ HasData(resp)
                          /\ JsonLaborLine(resp.Data.val[1]).notes
                                = OmitEmptySlice(journal[key].written.Notes)
                          /\ resp.Data.val[1].CreatedAt = journal[key].created.CreatedAt
                    /\ key \in DOMAIN journal /\ journal[key].last = "delete" =>
                          /\ ~HasData(resp)
                          /\ resp.Error # None
                          /\ resp.Error[1].Type = "NotFound"
          /\ Answered(p, "listLaborLines") =>
                LET input == ListLaborLinesInput(inv'[p].event[1])
                    resp == RespOf(inv'[p])
                IN  (\A k \in DOMAIN journal :
                        ListMatches(input, k) => journal[k].last = "delete")
                    => resp.Data = ListData(None)]_vars

C10_Witness ==
    \E p \in Procs :
        /\ Done(p) /\ FieldOf(p) = "listLaborLines" /\ inv[p].err = ""
        /\ Resp(p).Data = ListData(None)
        /\ \E k \in DOMAIN journal :
              /\ ListMatches(ListLaborLinesInput(inv[p].event[1]), k)
              /\ journal[k].last = "delete" /\ journal[k].writes = 2
              /\ journal[k].created.Notes = Some(<<N1>>)
              /\ journal[k].written.Notes = Some(<<N2>>)
              /\ Len(inv[p].items) = 1

\* C11: a create that succeeds returns a record whose laborLineId is the
\* identifier the server generated and not a laborLineId of the arguments,
\* whose createdAt equals its updatedAt, whose deletedAt is absent, and whose
\* contactId, accountId, taskId, partId and notes are those of the input.
C11_CreateResult ==
    \A p \in Procs :
        (Done(p) /\ FieldOf(p) = "createLaborLine" /\ inv[p].err = ""
           /\ inv[p].calls = <<"PutItem">>)
        => LET input == CreateLaborLineInput(inv[p].event[1])
               data == Resp(p).Data
           IN  /\ Resp(p).Error = None
               /\ data.kind = "LaborLine" /\ data.val # None
               /\ data.val[1].LaborLineID \in NewUUIDs
               /\ data.val[1].LaborLineID # Bag(inv[p].event[1]).laborLineId
               /\ data.val[1].CreatedAt = data.val[1].UpdatedAt
               /\ data.val[1].DeletedAt = None
               /\ data.val[1].ContactID = input.ContactID
               /\ data.val[1].AccountID = input.AccountID
               /\ data.val[1].TaskID = input.TaskID
               /\ data.val[1].PartID = input.PartID
               /\ data.val[1].Notes = input.Notes

C11_Witness ==
    \E p \in Procs :
        /\ Done(p) /\ FieldOf(p) = "createLaborLine" /\ HasData(Resp(p))
        /\ Bag(inv[p].event[1]).laborLineId = BadID
        /\ Resp(p).Data.val[1].LaborLineID = L1
        /\ Resp(p).Data.val[1].Notes = Some(<<N1>>)
        /\ Resp(p).Data.val[1].ContactID = C1

\* the item at key k is missing or carries deletedAt
Missing(tbl, k) == k \notin DOMAIN tbl \/ tbl[k].deletedAt # None

\* C12: an update whose lookup finds no item or a tombstone at its key ends
\* there with an error and without data, having made no PutItem call and
\* leaving the table as it was; no step of an update adds a key to the table.
C12_NoUpsert ==
    [][\A p \in Procs :
          /\ (/\ inv[p].pc = "update_get"
               /\ inv'[p] # inv[p]
               /\ inv'[p].err # "ServiceError"
               /\ Missing(store, KeyOf(MarshalMap(inv[p].laborLine[1]))))
              => /\ inv'[p].pc = "done"
                 /\ inv'[p].calls = <<"GetItem">>
                 /\ RespOf(inv'[p]).Error # None
                 /\ ~HasData(RespOf(inv'[p]))
                 /\ store' = store
          /\ (/\ inv[p].pc \in {"update_get", "update_put", "update_refetch"}
               /\ inv'[p] # inv[p])
              => DOMAIN store' = DOMAIN store]_vars

C12_Witness ==
    \E p \in Procs :
        /\ Done(p) /\ FieldOf(p) = "updateLaborLine"
        /\ inv[p].err = "labor line not found"
        /\ inv[p].calls = <<"GetItem">>
        /\ Tombstone(inv[p].item)
        /\ Missing(store, KeyOf(MarshalMap(inv[p].laborLine[1])))

\* C13: an update's PutItem that finds a tombstone at its key, for instance
\* the one a delete wrote after the update's lookup, is rejected: the update
\* ends with an error and without data and the table is as it was; in every
\* step an item that carries deletedAt still carries it afterwards.
C13_TombstoneStays ==
    [][/\ \A p \in Procs :
            (/\ inv[p].pc = "update_put"
             /\ inv'[p] # inv[p]
             /\ inv'[p].err # "ServiceError"
             /\ Missing(store, KeyOf(MarshalMap(inv[p].laborLine[1]))))
            => /\ store' = store
               /\ inv'[p].pc = "done"
               /\ RespOf(inv'[p]).Error # None
               /\ ~HasData(RespOf(inv'[p]))
       /\ \A k \in DOMAIN store :
            store[k].deletedAt # None
               => k \in DOMAIN store' /\ store'[k].deletedAt # None]_vars

C13_Witness ==
    \E p \in Procs :
        /\ Done(p) /\ FieldOf(p) = "updateLaborLine"
        /\ inv[p].err = "ConditionalCheckFailedException"
        /\ inv[p].calls = <<"GetItem", "PutItem">>
        /\ inv[p].item # None /\ inv[p].item[1].deletedAt = None
        /\ Tombstone(GetItem(store, KeyOf(MarshalMap(inv[p].laborLine[1]))))

\* C14: after every step each stored item sits at the key <<PK, SK>> it
\* carries, with PK equal to its accountId and SK equal to its taskId, "#"
\* and its laborLineId; and the laborLineId, accountId and taskId of the item
\* at a key are the same before and after every step.
C14_KeyConsistent ==
    [][\A k \in DOMAIN store' :
          /\ k = <<store'[k].PK, store'[k].SK>>
          /\ store'[k].PK = store'[k].accountId
          /\ store'[k].SK = store'[k].taskId \o <<"#">> \o store'[k].laborLineId
          /\ k \in DOMAIN store =>
                /\ store'[k].laborLineId = store[k].laborLineId
                /\ store'[k].accountId = store[k].accountId
                /\ store'[k].taskId = store[k].taskId]_vars

C14_Witness ==
    \E k \in DOMAIN journal :
        /\ journal[k].last = "update" /\ journal[k].writes = 1
        /\ store[k].notes # OmitEmptySlice(journal[k].created.Notes)
        /\ store[k].laborLineId = journal[k].created.LaborLineID
        /\ k = <<store[k].accountId, store[k].taskId \o <<"#">> \o store[k].laborLineId>>

Listed(resp) == IF resp.Data.val = None THEN <<>> ELSE resp.Data.val[1]

\* C16: a list that reaches the table returns, each once, exactly the stored
\* items whose PK is the accountId asked for, whose SK begins with the taskId
\* asked for followed by "#" (every SK when the taskId is empty) and whose
\* deletedAt is absent; no item of another account is returned.
C16_ListExact ==
    [][\A p \in Procs :
          Answered(p, "listLaborLines") =>
             LET input == ListLaborLinesInput(inv'[p].event[1])
                 resp == RespOf(inv'[p])
                 expected == {k \in DOMAIN store :
                                ListMatches(input, k) /\ store[k].deletedAt = None}
             IN  /\ resp.Error = None
                 /\ resp.Data.kind = "list"
                 /\ {Listed(resp)[i] : i \in 1..Len(Listed(resp))}
                       = {UnmarshalMap(store[k]) : k \in expected}
                 /\ Len(Listed(resp)) = Cardinality(expected)
                 /\ \A i \in 1..Len(Listed(resp)) :
                       Listed(resp)[i].AccountID = input.AccountID]_vars

C16_Witness ==
    \E p \in Procs :
        /\ Done(p) /\ FieldOf(p) = "listLaborLines" /\ inv[p].err = ""
        /\ ~DecodeFails(inv[p].event[1])
        /\ ListLaborLinesInput(inv[p].event[1]).TaskID = Empty
        /\ Len(Listed(Resp(p))) = 1
        /\ Cardinality(DOMAIN store) = 2
        /\ \E k \in DOMAIN store : k[1] # ListLaborLinesInput(inv[p].event[1]).AccountID

\* what the schema and the identifier check ask of the arguments of a
\* mutation; the laborLineId counts for an update only
WellFormed(bag, isUpdate) ==
    /\ Canonical(bag.accountId)
    /\ Canonical(bag.taskId)
    /\ isUpdate => Canonical(bag.laborLineId)
    /\ bag.partId # None =>
          /\ \A i \in 1..Len(bag.partId[1]) : Canonical(bag.partId[1][i])
          /\ \A i, j \in 1..Len(bag.partId[1]) :
                i # j => bag.partId[1][i] # bag.partId[1][j]
    /\ bag.notes # None =>
          \A i \in 1..Len(bag.notes[1]) :
              bag.notes[1][i].len >= 1 /\ bag.notes[1][i].len <= 1000

\* the handler step that takes a decodable create or update event
Validated(p) ==
    /\ inv[p].pc = "idle"
    /\ inv'[p].pc # "idle"
    /\ inv'[p].event[1].Info.FieldName \in {"createLaborLine", "updateLaborLine"}
    /\ ~DecodeFails(inv'[p].event[1])

\* C17: a create or update whose input fails validation is answered in the
\* same step with an error of type ValidationError and no data, without any
\* call to the table, and the table is as it was.
C17_InvalidNotPersisted ==
    [][\A p \in Procs :
          (/\ Validated(p)
           /\ ~WellFormed(Bag(inv'[p].event[1]),
                           inv'[p].event[1].Info.FieldName = "updateLaborLine"))
          => /\ inv'[p].pc = "done"
             /\ inv'[p].nvalid = 1
             /\ RespOf(inv'[p]).Error # None
             /\ RespOf(inv'[p]).Error[1].Type = "ValidationError"
             /\ ~HasData(RespOf(inv'[p]))
             /\ inv'[p].calls = <<>>
             /\ store' = store]_vars

C17_Witness ==
    \E p \in Procs :
        /\ Done(p) /\ FieldOf(p) = "createLaborLine"
        /\ Bag(inv[p].event[1]).notes = Some(<<N0>>)
        /\ inv[p].nvalid = 1 /\ inv[p].calls = <<>>
        /\ Resp(p).Error # None /\ Resp(p).Error[1].Type = "ValidationError"
        /\ store # <<>>

\* the invocation's input passed the validator
Accepted(p) == inv[p].pc \in {"create_put", "update_get"}

\* the validator's error, as carried by the ValidationError response
Rejected(p) ==
    /\ Done(p) /\ inv[p].nvalid = 1
    /\ Resp(p).Error # None /\ Resp(p).Error[1].Type = "ValidationError"

Verdict(p) == Resp(p).Error[1].Message[2]

\* C18: the validator accepts the input of a create or update exactly when
\* its accountId and taskId (and the laborLineId of an update) are
\* identifiers in canonical form, every partId element is one and no two are
\* equal, and every note has a length from 1 to 1000; otherwise it rejects.
C18_AcceptsIff ==
    \A p \in Procs :
        (/\ inv[p].pc # "idle"
         /\ FieldOf(p) \in {"createLaborLine", "updateLaborLine"}
         /\ ~DecodeFails(inv[p].event[1]))
        => /\ Accepted(p) \/ Rejected(p)
           /\ Accepted(p) <=> WellFormed(Bag(inv[p].event[1]),
                                          FieldOf(p) = "updateLaborLine")

C18_Witness ==
    \E p \in Procs :
        /\ Accepted(p) /\ FieldOf(p) = "updateLaborLine"
        /\ Bag(inv[p].event[1]).partId = Some(<<P1, P2>>)
        /\ Bag(inv[p].event[1]).notes = Some(<<NMax>>)

\* the identifiers uuid.Parse is run on, for a create (whose laborLineId is
\* the generated placeholder) or an update
ParsedIDs(p) ==
    LET bag == Bag(inv[p].event[1])
    IN  (IF FieldOf(p) = "updateLaborLine"
         THEN <<[field |-> "laborLineId", value |-> bag.laborLineId]>> ELSE <<>>)
        \o <<[field |-> "accountId", value |-> bag.accountId],
             [field |-> "taskId", value |-> bag.taskId]>>

BadParts(p) ==
    LET bag == Bag(inv[p].event[1])
    IN  IF bag.partId = None THEN {}
        ELSE {i \in 1..Len(bag.partId[1]) : ~UuidParse(bag.partId[1][i])}

\* C19: when uuid.Parse refuses an identifier of the input, the error names
\* the first such field in the order laborLineId, accountId, taskId, or else
\* the lowest partId index, and reports nothing else; the schema's findings
\* are reported only when uuid.Parse refused nothing, and then every empty
\* note, every note over 1000 characters and a repeated partId are all in
\* the one error.
C19_Precedence ==
    \A p \in Procs :
        (/\ inv[p].pc # "idle"
         /\ FieldOf(p) \in {"createLaborLine", "updateLaborLine"}
         /\ ~DecodeFails(inv[p].event[1]))
        => LET bag == Bag(inv[p].event[1])
               ids == ParsedIDs(p)
               badIDs == {i \in 1..Len(ids) : ~UuidParse(ids[i].value)}
           IN  /\ badIDs # {} =>
                     /\ Rejected(p)
                     /\ Verdict(p).kind = "uuid"
                     /\ Verdict(p).errors = {}
                     /\ \E i \in badIDs :
                           /\ \A j \in badIDs : i <= j
                           /\ Verdict(p).field = ids[i].field
               /\ badIDs = {} /\ BadParts(p) # {} =>
                     /\ Rejected(p)
                     /\ Verdict(p).kind = "uuid"
                     /\ Verdict(p).errors = {}
                     /\ Verdict(p).field = "partId"
                     /\ Verdict(p).index + 1 \in BadParts(p)
                     /\ \A j \in BadParts(p) : Verdict(p).index + 1 <= j
               /\ Rejected(p) /\ Verdict(p).kind = "schema" =>
                     /\ badIDs = {} /\ BadParts(p) = {}
                     /\ bag.notes # None =>
                           \A i \in 1..Len(bag.notes[1]) :
                              /\ bag.notes[1][i].len < 1 =>
                                    [field |-> "notes", index |-> i, rule |-> "minLength"]
                                       \in Verdict(p).errors
                              /\ bag.notes[1][i].len > 1000 =>
                                    [field |-> "notes", index |-> i, rule |-> "maxLength"]
                                       \in Verdict(p).errors
                     /\ (bag.partId # None /\ \E i, j \in 1..Len(bag.partId[1]) :
                             i # j /\ bag.partId[1][i] = bag.partId[1][j])
                           => [field |-> "partId", index |-> 0, rule |-> "uniqueItems"]
                                 \in Verdict(p).errors
               /\ (badIDs = {} /\ BadParts(p) = {} /\ ~Accepted(p))
                     => Rejected(p) /\ Verdict(p).kind = "schema"

C19_Witness ==
    \E p \in Procs :
        /\ Rejected(p) /\ FieldOf(p) = "updateLaborLine"
        /\ Bag(inv[p].event[1]).laborLineId = L1
        /\ Bag(inv[p].event[1]).accountId = BadID
        /\ Bag(inv[p].event[1]).taskId = Empty
        /\ Bag(inv[p].event[1]).partId = Some(<<P1, BadID>>)
        /\ Bag(inv[p].event[1]).notes = Some(<<N0, NOver>>)
        /\ Verdict(p).kind = "uuid" /\ Verdict(p).field = "accountId"

\* C20: a get whose GetItem succeeds and finds no item or a tombstone gets a
\* nil record and no error from the adapter, and is answered with the error
\* type NotFound, the message "labor line not found" and no data; a get is
\* answered with InternalError exactly when its GetItem call failed.
C20_GetNotFound ==
    \A p \in Procs :
        (Done(p) /\ FieldOf(p) = "getLaborLine" /\ ~DecodeFails(inv[p].event[1]))
        => /\ Resp(p).Error # None /\ Resp(p).Error[1].Type = "InternalError"
                 <=> inv[p].err = "ServiceError"
           /\ (inv[p].err = "" /\ (inv[p].item = None \/ Tombstone(inv[p].item)))
                 => /\ GetLaborLine(inv[p].item) = None
                    /\ Resp(p).Error # None
                    /\ Resp(p).Error[1].Type = "NotFound"
                    /\ Resp(p).Error[1].Message = <<"labor line not found">>
                    /\ Resp(p).Data = NilData
                    /\ ~HasData(Resp(p))

C20_Witness ==
    \E p \in Procs :
        /\ Done(p) /\ FieldOf(p) = "getLaborLine"
        /\ inv[p].calls = <<"GetItem">> /\ inv[p].err = ""
        /\ inv[p].item = None
        /\ Resp(p).Error # None /\ Resp(p).Error[1].Type = "NotFound"
        /\ store # <<>>

\* C21: every response to an invocation whose persistence call returned an
\* error (a failed client call, a rejected conditional write, a missing or
\* tombstoned target of an update or delete) has the error type
\* InternalError and no data; no response has the type ConflictError.
C21_AdapterFailuresInternal ==
    \A p \in Procs : Done(p) /\ inv[p].ret[1].resp # None =>
        /\ inv[p].err # "" =>
              /\ Resp(p).Error # None
              /\ Resp(p).Error[1].Type = "InternalError"
              /\ ~HasData(Resp(p))
        /\ Resp(p).Error # None => Resp(p).Error[1].Type # "ConflictError"

C21_Witness ==
    \E p \in Procs :
        /\ Done(p) /\ FieldOf(p) = "createLaborLine"
        /\ inv[p].err = "ConditionalCheckFailedException"
        /\ Resp(p).Error[1].Type = "InternalError"
        /\ store[KeyOf(MarshalMap(inv[p].laborLine[1]))].deletedAt = None

\* C22: an event that names a known operation in its top-level fieldName
\* and leaves info empty is handled as that operation: it is not answered
\* as unsupported, a get of a stored, live record returns the record without
\* error, and a delete of a stored record returns the acknowledgement.
C22_TopLevelRouted ==
    \A p \in Procs :
        (/\ Done(p)
         /\ inv[p].event[1].FieldName \in OpNames
         /\ inv[p].event[1].Info.FieldName = "")
        => LET key == GetKey(GetLaborLineInput(inv[p].event[1]))
           IN  /\ Resp(p).Error # None => Resp(p).Error[1].Type # "UnsupportedOperation"
               /\ (inv[p].event[1].FieldName = "getLaborLine" /\ ~Missing(store, key))
                     => Resp(p).Error = None /\ HasData(Resp(p))
               /\ (inv[p].event[1].FieldName = "deleteLaborLine" /\ key \in DOMAIN store)
                     => Resp(p).Data = DeletedData

\* the write step of a delete whose PutItem call reached the table
DeleteWrites(p) ==
    /\ inv[p].pc = "delete_put"
    /\ inv'[p] # inv[p]
    /\ inv'[p].err # "ServiceError"

DeleteOk(rec) ==
    /\ rec.pc = "done" /\ rec.err = ""
    /\ rec.event[1].Info.FieldName = "deleteLaborLine"
    /\ RespOf(rec).Error = None /\ RespOf(rec).Data = DeletedData

\* C23: the write of a delete succeeds whatever was written to the key since
\* the delete's lookup, and stores the item the lookup fetched with deletedAt
\* set: the tombstone has the contactId, partId, notes and createdAt of that
\* snapshot, so an update acknowledged in between is lost.
C23_DeleteWritesSnapshot ==
    [][\A p \in Procs :
          DeleteWrites(p) =>
             LET key == GetKey(DeleteLaborLineInput(inv[p].event[1]))
                 snap == inv[p].item[1]
             IN  /\ DeleteOk(inv'[p])
                 /\ store'[key].deletedAt # None
                 /\ store'[key].contactId = snap.contactId
                 /\ store'[key].partId = snap.partId
                 /\ store'[key].notes = snap.notes
                 /\ store'[key].createdAt = snap.createdAt]_vars

C23_Witness ==
    \E p, q \in Procs :
        /\ DeleteOk(inv[p])
        /\ Done(q) /\ FieldOf(q) = "updateLaborLine" /\ inv[q].err = ""
        /\ Len(inv[q].calls) = 3
        /\ LET key == GetKey(DeleteLaborLineInput(inv[p].event[1]))
           IN  /\ key = GetKey(GetLaborLineInput(inv[q].event[1]))
               /\ store[key].deletedAt # None
               /\ store[key].notes = inv[p].item[1].notes
               /\ store[key].notes # OmitEmptySlice(UpdateLaborLineInput(inv[q].event[1]).Notes)

\* C24: the write of a delete that finds a tombstone at its key, left by
\* another delete since its own lookup, succeeds all the same and replaces
\* the tombstone's deletedAt and updatedAt by its own stamp; both deletes
\* are acknowledged.
C24_DeleteOverTombstone ==
    [][\A p \in Procs :
          (DeleteWrites(p)
             /\ Tombstone(GetItem(store, GetKey(DeleteLaborLineInput(inv[p].event[1])))))
          => LET key == GetKey(DeleteLaborLineInput(inv[p].event[1]))
                 stamped == inv[p].laborLine[1]
             IN  /\ DeleteOk(inv'[p])
                 /\ store'[key].deletedAt = stamped.DeletedAt
                 /\ store'[key].updatedAt = stamped.UpdatedAt]_vars

C24_Witness ==
    \E p, q \in Procs :
        /\ p # q /\ DeleteOk(inv[p]) /\ DeleteOk(inv[q])
        /\ inv[p].item[1].deletedAt = None /\ inv[q].item[1].deletedAt = None
        /\ inv[p].laborLine[1].DeletedAt # inv[q].laborLine[1].DeletedAt
        /\ LET key == GetKey(DeleteLaborLineInput(inv[p].event[1]))
           IN  /\ key = GetKey(DeleteLaborLineInput(inv[q].event[1]))
               /\ journal[key].writes = 2
               /\ store[key].deletedAt = inv[p].laborLine[1].DeletedAt

\* C25: the data of an update's response is the record read from the table
\* by the GetItem that follows the update's write: nil when the key holds a
\* tombstone by then, the stored item otherwise; when the item at the key is
\* still the one the update wrote, the data has the input's contactId,
\* partId and notes, the createdAt of the create and the update's updatedAt.
C25_UpdateReturnsRefetch ==
    [][\A p \in Procs :
          (inv[p].pc = "update_refetch" /\ inv'[p] # inv[p] /\ inv'[p].err = "")
          => LET key == GetKey(GetLaborLineInput(inv[p].event[1]))
                 input == UpdateLaborLineInput(inv[p].event[1])
                 data == RespOf(inv'[p]).Data
             IN  /\ RespOf(inv'[p]).Error = None
                 /\ data.kind = "LaborLine"
                 /\ data.val = (IF Missing(store, key) THEN None
                                ELSE Some(UnmarshalMap(store[key])))
                 /\ store[key] = MarshalMap(inv[p].laborLine[1]) =>
                       /\ data.val # None
                       /\ JsonLaborLine(data.val[1]).contactId = input.ContactID
                       /\ JsonLaborLine(data.val[1]).partId = OmitEmptySlice(input.PartID)
                       /\ JsonLaborLine(data.val[1]).notes = OmitEmptySlice(input.Notes)
                       /\ data.val[1].CreatedAt = journal[key].created.CreatedAt
                       /\ data.val[1].UpdatedAt = inv[p].laborLine[1].UpdatedAt]_vars

C25_Witness ==
    \E p \in Procs :
        /\ Done(p) /\ FieldOf(p) = "updateLaborLine" /\ inv[p].err = ""
        /\ Len(inv[p].calls) = 3
        /\ HasData(Resp(p))
        /\ JsonLaborLine(Resp(p).Data.val[1]) # JsonLaborLine(inv[p].laborLine[1])

\* C26: an invocation of create, update or delete that has called the table
\* has called the validator on its decoded input first, and an invocation of
\* get or list never calls the validator.
C26_MutationsValidated ==
    \A p \in Procs : inv[p].pc # "idle" =>
        /\ (FieldOf(p) \in {"createLaborLine", "updateLaborLine", "deleteLaborLine"}
               /\ inv[p].calls # <<>>)
              => inv[p].nvalid = 1
        /\ FieldOf(p) \in {"getLaborLine", "listLaborLines"} => inv[p].nvalid = 0

\* the store calls an invocation of each operation can have made
CallPatterns(fieldName) ==
    CASE fieldName = "createLaborLine" -> {<<>>, <<"PutItem">>}
      [] fieldName = "getLaborLine" -> {<<>>, <<"GetItem">>}
      [] fieldName = "listLaborLines" -> {<<>>, <<"Query">>}
      [] fieldName = "deleteLaborLine" -> {<<>>, <<"GetItem">>, <<"GetItem", "PutItem">>}
      [] fieldName = "updateLaborLine" ->
            {<<>>, <<"GetItem">>, <<"GetItem", "PutItem">>,
             <<"GetItem", "PutItem", "GetItem">>}
      [] OTHER -> {<<>>}

\* how far an invocation is from its start
Rank(pc) ==
    CASE pc = "idle" -> 0
      [] pc \in {"create_put", "update_get", "delete_softdelete"} -> 1
      [] pc \in {"update_put", "delete_put"} -> 2
      [] pc = "update_refetch" -> 3
      [] OTHER -> 4

\* C27: every step of an invocation makes at most one store call and moves
\* it forward, the calls made are at most one PutItem for create, one GetItem
\* for get, one Query for list, GetItem then PutItem for delete, and GetItem,
\* PutItem, GetItem for update; a call that fails ends the invocation at once
\* with an error response; and every started invocation reaches its response.
C27_BoundedCalls ==
    /\ [][\A p \in Procs :
             (inv'[p] # inv[p] /\ inv[p].pc # "done")
             => /\ Rank(inv'[p].pc) > Rank(inv[p].pc)
                /\ Len(inv'[p].calls) <= Len(inv[p].calls) + 1
                /\ inv'[p].calls \in CallPatterns(inv'[p].event[1].Info.FieldName)
                /\ inv'[p].err # "" =>
                      /\ inv'[p].pc = "done"
                      /\ inv'[p].ret[1].resp # None
                      /\ RespOf(inv'[p]).Error # None
                /\ inv'[p].pc = "done" => inv'[p].ret[1].resp # None]_vars
    /\ \A p \in Procs : (inv[p].pc \notin {"idle", "done"}) ~> Done(p)

C27_Witness ==
    \E p \in Procs :
        /\ Done(p) /\ FieldOf(p) = "updateLaborLine"
        /\ inv[p].calls = <<"GetItem", "PutItem">>
        /\ inv[p].err = "ServiceError"
        /\ Resp(p).Error # None

\* the write step of an update that replaced the item at its key
UpdateWrote(p) == inv[p].pc = "update_put" /\ inv'[p].pc = "update_refetch"

\* C28: the item an update writes has the contactId, partId and notes of
\* that update's input and nothing of the item it replaces (a field the
\* input omits is absent afterwards), and every step that changes a stored
\* item and leaves it without deletedAt is the write of one update: the
\* item is never put together from two invocations.
C28_UpdateReplacesWhole ==
    [][/\ \A p \in Procs :
            UpdateWrote(p) =>
               LET key == GetKey(GetLaborLineInput(inv[p].event[1]))
                   input == UpdateLaborLineInput(inv[p].event[1])
               IN  /\ store'[key].contactId = input.ContactID
                   /\ store'[key].partId = OmitEmptySlice(input.PartID)
                   /\ store'[key].notes = OmitEmptySlice(input.Notes)
                   /\ \A k \in DOMAIN store : k # key => store'[k] = store[k]
       /\ \A k \in DOMAIN store :
            (store'[k] # store[k] /\ store'[k].deletedAt = None)
            => \E p \in Procs :
                  UpdateWrote(p) /\ k = GetKey(GetLaborLineInput(inv[p].event[1]))]_vars

C28_Witness ==
    \E k \in DOMAIN journal :
        /\ journal[k].last = "update"
        /\ journal[k].created.Notes = Some(<<N1>>)
        /\ journal[k].written.Notes = None
        /\ store[k].notes = None
        /\ store[k].deletedAt = None

\* C29: every stored item that carries deletedAt carries the same instant
\* as its updatedAt.
C29_TombstoneStamp ==
    \A k \in DOMAIN store :
        store[k].deletedAt # None => store[k].deletedAt[1] = store[k].updatedAt

C29_Witness ==
    \E k \in DOMAIN store :
        /\ store[k].deletedAt # None
        /\ store[k].updatedAt > store[k].createdAt
        /\ k \in DOMAIN journal /\ journal[k].writes = 1

\* a PutItem of the invocation that was followed by another call succeeded
WroteEarlier(rec) == \E i \in 1..(Len(rec.calls) - 1) : rec.calls[i] = "PutItem"

\* C30: no step of a get or a list changes the table, and a create, update
\* or delete that is answered with an error has not changed the table:
\* neither in the step that ends it nor by an earlier write of its own.
C30_FailuresLeaveStore ==
    [][\A p \in Procs :
          /\ (/\ inv'[p] # inv[p] /\ inv'[p].pc # "idle"
               /\ inv'[p].event[1].Info.FieldName \in {"getLaborLine", "listLaborLines"})
              => store' = store
          /\ (/\ inv[p].pc # "done" /\ inv'[p].pc = "done"
               /\ inv'[p].event[1].Info.FieldName
                     \in {"createLaborLine", "updateLaborLine", "deleteLaborLine"}
               /\ RespOf(inv'[p]).Error # None)
              => /\ store' = store
                 /\ ~WroteEarlier(inv'[p])]_vars

====
